---- MODULE Spec2Model ----
(***************************************************************************)
(* Model of src/menu.rs: the menu templates (MenuBuilder), their           *)
(* resolution against the asset directory listing (build), and the         *)
(* navigation of menus driven by the GameState stack: init_main_menu,      *)
(* init_menu, button_action and term_menu run as system sets on the        *)
(* enter / update / exit of the states MainMenu and Menu.                  *)
(*                                                                         *)
(* An Option<T> is a sequence: <<>> is None and <<v>> is Some(v).          *)
(* A Path is the sequence of its components, relative to the asset root.   *)
(***************************************************************************)
EXTENDS Integers, Sequences, FiniteSets, TLC

VARIABLES
    state,          \* State<GameState>: [stack, transition, scheduled]
    menu_es,        \* resource MenuEs: Option<Vec<Entity>>
    next_menu,      \* resource NextMenu: Option<MenuBuilder>
    buffered_state, \* resource BufferedState: Option<GameState>
    opening_game,   \* resource OpeningGame is present
    nodes,          \* the spawned menu root entities: Entity -> [display, menu]
    assets,         \* the asset directories: directory -> Option<Vec<PathBuf>>
    panicked,       \* an unwrap() failed: the application has stopped
    hist,           \* history: the last navigation request and the stack it was made on
    held,           \* the buttons whose Interaction is Clicked
    forwarded,      \* what the last run of button_action handed to the other systems
    rs_builder,     \* resolver harness: the template given to build
    rs_menu,        \* resolver harness: Option<Menu>, the result of build
    rs_reads        \* resolver harness: the directories read_directory was called on

vars == <<state, menu_es, next_menu, buffered_state, opening_game, nodes,
          assets, panicked, hist, held, forwarded, rs_builder, rs_menu, rs_reads>>

navVars == <<state, menu_es, next_menu, buffered_state, opening_game, nodes,
             panicked, hist, held, forwarded>>

rsVars == <<rs_builder, rs_menu, rs_reads>>

(***************************************************************************)
(* Bounds of the model.                                                    *)
(***************************************************************************)
\* entity ids available to the spawned menu roots
MaxEntities == 4
\* buttons that may report Interaction::Clicked in one run of button_action
MaxPressed == 2
\* entries of one asset directory
MaxAssets == 2
\* button groups of a template given to the resolver harness
MaxGroups == 3

None == <<>>
Some(v) == <<v>>
IsSome(o) == o # <<>>
Unwrap(o) == o[1]

Last(s) == s[Len(s)]
Front(s) == SubSeq(s, 1, Len(s) - 1)

RECURSIVE Concat(_)
Concat(ss) == IF ss = <<>> THEN <<>> ELSE Head(ss) \o Concat(Tail(ss))

(***************************************************************************)
(* Paths and the asset directory listing.                                  *)
(***************************************************************************)
AssetNames == {"alpha", "beta"}

\* Path::join of two relative paths
PathJoin(base, path) == base \o path

\* Path::file_name: the last component
file_name(path) == Last(path)

assets_path(a) ==
    CASE a = "CreateWorld" -> <<"games">>
      [] a = "Play" -> <<"worlds">>

AssetDirs == {<<"games">>, <<"worlds">>}

\* the entries of a directory are paths relative to the asset root
DirEntries(dir) == {PathJoin(dir, <<n>>) : n \in AssetNames}

\* the sequences without repetition over a set, up to a length
SeqsNoRep(S, n) ==
    {s \in UNION {[1..k -> S] : k \in 0..n} :
        \A i, j \in 1..Len(s) : i # j => s[i] # s[j]}

\* a directory is missing (None: read_directory fails) or lists its entries
Listings(dir) == {None} \cup {Some(l) : l \in SeqsNoRep(DirEntries(dir), MaxAssets)}

AssetStates == {a \in [AssetDirs -> UNION {Listings(d) : d \in AssetDirs}] :
                    \A d \in AssetDirs : a[d] \in Listings(d)}

\* read_directory that lists the directory games whatever it is asked
read_directory_Games(asset_server, dir) ==
    IF IsSome(asset_server[<<"games">>])
    THEN [ok |-> TRUE, entries |-> Unwrap(asset_server[<<"games">>])]
    ELSE [ok |-> FALSE, entries |-> <<>>]

\* AssetIo::read_directory: Err when the directory cannot be listed
read_directory(asset_server, dir) ==
    IF IsSome(asset_server[dir])
    THEN [ok |-> TRUE, entries |-> Unwrap(asset_server[dir])]
    ELSE [ok |-> FALSE, entries |-> <<>>]

(***************************************************************************)
(* Actions, buttons and templates.                                         *)
(***************************************************************************)
ActionBack == [type |-> "Back"]
ActionRebuild == [type |-> "Rebuild"]
ActionImportGame == [type |-> "ImportGame"]
ActionMenu(menu) == [type |-> "Menu", menu |-> menu]
ActionCreateWorld(path) == [type |-> "CreateWorld", path |-> path]
ActionPlay(path) == [type |-> "Play", path |-> path]
ActionSet(actions) == [type |-> "Set", set |-> actions]

MenuButton(text, act) == [text |-> text, action |-> act]
Row(buttons) == [kind |-> "Row", row |-> buttons]
PerAsset(a) == [kind |-> "PerAsset", action |-> a]
MenuBuilder(title, size, buttons) ==
    [title |-> [text |-> title, size |-> size], buttons |-> buttons]

\* AssetButtonAction::action
action(a, path) ==
    LET joined == PathJoin(assets_path(a), path)
    IN CASE a = "CreateWorld" -> ActionCreateWorld(joined)
         [] a = "Play" -> ActionPlay(joined)

\* the row of one directory entry
AssetRow(a, path) == <<MenuButton(file_name(path), action(a, path))>>

\* a failed listing shown as one entry
UnwrapOrEmpty_Placeholder(result) ==
    IF result.ok THEN result.entries ELSE <<<<"missing">>>>

\* unwrap_or_else: a failed listing is an empty one
UnwrapOrEmpty(result) == IF result.ok THEN result.entries ELSE <<>>

\* build that gives every button of a Row a row of its own
MenuButtonsBuilder_build_Flat(b, asset_server) ==
    IF b.kind = "Row"
    THEN [i \in 1..Len(b.row) |-> <<b.row[i]>>]
    ELSE LET entries == UnwrapOrEmpty(read_directory(asset_server, assets_path(b.action)))
         IN [i \in 1..Len(entries) |-> AssetRow(b.action, entries[i])]

\* MenuButtonsBuilder::build
MenuButtonsBuilder_build(b, asset_server) ==
    IF b.kind = "Row"
    THEN <<b.row>>
    ELSE LET entries == UnwrapOrEmpty(read_directory(asset_server, assets_path(b.action)))
         IN [i \in 1..Len(entries) |-> AssetRow(b.action, entries[i])]

\* the calls of read_directory that MenuButtonsBuilder::build makes
MenuButtonsBuilder_reads(b) ==
    IF b.kind = "Row" THEN <<>> ELSE <<assets_path(b.action)>>

\* MenuBuilder::build
MenuBuilder_build(builder, asset_server) ==
    [title |-> builder.title,
     buttons |-> Concat([i \in 1..Len(builder.buttons) |->
                            MenuButtonsBuilder_build(builder.buttons[i], asset_server)])]

MenuBuilder_reads(builder) ==
    Concat([i \in 1..Len(builder.buttons) |-> MenuButtonsBuilder_reads(builder.buttons[i])])

\* the templates of init_main_menu
NewWorldMenu ==
    MenuBuilder("New world", "Normal",
        <<PerAsset("CreateWorld"),
          Row(<<MenuButton("Back", ActionBack),
                MenuButton("Import game", ActionSet(<<ActionImportGame, ActionRebuild>>))>>)>>)

ChooseWorldMenu ==
    MenuBuilder("Choose a world", "Normal",
        <<PerAsset("Play"),
          Row(<<MenuButton("Back", ActionBack),
                MenuButton("New world", ActionMenu(NewWorldMenu))>>)>>)

MainMenu ==
    MenuBuilder("voxmod", "MainTitle",
        <<Row(<<MenuButton("Play", ActionMenu(ChooseWorldMenu))>>),
          Row(<<MenuButton("Edit", ActionBack)>>),
          Row(<<MenuButton("Quit", ActionBack)>>)>>)

(***************************************************************************)
(* State<GameState>: the stack of states, the transition in progress and   *)
(* the operation scheduled by set / replace / push / pop.                  *)
(***************************************************************************)
NoTransition == [kind |-> "None", from |-> "-", to |-> "-"]
Transition(kind, from, to) == [kind |-> kind, from |-> from, to |-> to]
NoOperation == [op |-> "None", next |-> "-"]
Operation(op, next) == [op |-> op, next |-> next]

Ok(st) == [ok |-> TRUE, state |-> st]
Err(st) == [ok |-> FALSE, state |-> st]

\* State::push, as called by init_main_menu and button_action
StatePush(st, s) ==
    IF Last(st.stack) = s \/ st.scheduled.op # "None"
    THEN Err(st)
    ELSE Ok([st EXCEPT !.scheduled = Operation("Push", s)])

\* State::pop, as called by button_action
StatePop(st) ==
    IF st.scheduled.op # "None" \/ Len(st.stack) = 1
    THEN Err(st)
    ELSE Ok([st EXCEPT !.scheduled = Operation("Pop", "-")])

\* button_action with set in the place of replace
StateReplace_AsSet(st, s) ==
    IF Last(st.stack) = s \/ st.scheduled.op # "None"
    THEN Err(st)
    ELSE Ok([st EXCEPT !.scheduled = Operation("Set", s)])

\* State::replace, as called by button_action
StateReplace(st, s) ==
    IF Last(st.stack) = s \/ st.scheduled.op # "None"
    THEN Err(st)
    ELSE Ok([st EXCEPT !.scheduled = Operation("Replace", s)])

\* State::set, as called by the systems outside the menu
StateSet(st, s) ==
    IF Last(st.stack) = s \/ st.scheduled.op # "None"
    THEN Err(st)
    ELSE Ok([st EXCEPT !.scheduled = Operation("Set", s)])

\* the driver of the state's system sets: it turns the scheduled operation
\* into the next transition, or advances the transition in progress
Cleaned(st) ==
    LET n == Len(st.stack)
        top == st.stack[n]
        t == st.transition
        sch == st.scheduled
        exitTop == Transition("ExitingToResume", top, st.stack[n - 1])
    IN CASE sch.op = "Set" ->
              [stack |-> st.stack, scheduled |-> NoOperation,
               transition |-> Transition("ExitingFull", top, sch.next)]
         [] sch.op = "Replace" ->
              IF n <= 1
              THEN [stack |-> st.stack, scheduled |-> NoOperation,
                    transition |-> Transition("ExitingFull", top, sch.next)]
              ELSE IF t.kind = "ExitingToResume"
                   THEN [stack |-> Front(st.stack), scheduled |-> sch,
                         transition |-> Transition("Resuming", t.from, t.to)]
                   ELSE [stack |-> st.stack, scheduled |-> sch, transition |-> exitTop]
         [] sch.op = "Push" ->
              [stack |-> st.stack, scheduled |-> NoOperation,
               transition |-> Transition("Pausing", top, sch.next)]
         [] sch.op = "Pop" ->
              [stack |-> st.stack, scheduled |-> NoOperation, transition |-> exitTop]
         [] sch.op = "None" ->
              CASE t.kind = "ExitingFull" ->
                     [stack |-> Append(Front(st.stack), t.to), scheduled |-> NoOperation,
                      transition |-> Transition("Entering", t.from, t.to)]
                [] t.kind = "Pausing" ->
                     [stack |-> Append(st.stack, t.to), scheduled |-> NoOperation,
                      transition |-> Transition("Entering", t.from, t.to)]
                [] t.kind = "ExitingToResume" ->
                     [stack |-> Front(st.stack), scheduled |-> NoOperation,
                      transition |-> Transition("Resuming", t.from, t.to)]
                [] t.kind = "PreStartup" ->
                     [stack |-> st.stack, scheduled |-> NoOperation,
                      transition |-> Transition("Startup", "-", "-")]
                [] OTHER ->
                     [stack |-> st.stack, scheduled |-> NoOperation,
                      transition |-> NoTransition]

\* the run criteria of the system sets of MenuPlugin::build
on_enter(st, s) ==
    \/ st.transition.kind = "Entering" /\ st.transition.to = s
    \/ st.transition.kind = "Startup" /\ Last(st.stack) = s

on_update(st, s) == Last(st.stack) = s /\ st.transition.kind = "None"

\* the exit systems run on a pause as well
on_exit_OrPause(st, s) ==
    /\ st.transition.kind \in {"ExitingToResume", "ExitingFull", "Pausing"}
    /\ st.transition.from = s

on_exit(st, s) ==
    /\ st.transition.kind \in {"ExitingToResume", "ExitingFull"}
    /\ st.transition.from = s

(***************************************************************************)
(* The menu entities.                                                      *)
(***************************************************************************)
\* a root node spawned hidden
Spawned_Hidden(menu) == [display |-> "None", menu |-> menu]

\* Menu::spawn: the root node of a menu, displayed (Style::default)
Spawned(menu) == [display |-> "Flex", menu |-> menu]

\* the entity that Commands::spawn_bundle reserves
FreeEntities == (1..MaxEntities) \ DOMAIN nodes
NewEntity == CHOOSE e \in FreeEntities : \A f \in FreeEntities : e <= f

\* the buttons of a menu: <<row, column>>
ButtonsOf(menu) ==
    UNION {{<<r, c>> : c \in 1..Len(menu.buttons[r])} : r \in 1..Len(menu.buttons)}

\* the buttons the pointer can reach: those of the displayed menus
Pressable ==
    UNION {{<<e, b[1], b[2]>> : b \in ButtonsOf(nodes[e].menu)} :
             e \in {f \in DOMAIN nodes : nodes[f].display = "Flex"}}

ActionOf(button) == nodes[button[1]].menu.buttons[button[2]][button[3]].action

(***************************************************************************)
(* The systems.  One step is one pass of the stage: the driver advances    *)
(* the state, the systems whose run criteria hold run, and their commands  *)
(* are applied.                                                            *)
(***************************************************************************)
Request(act, menu) ==
    [act |-> act, prev |-> hist.act, es |-> menu_es, nodes |-> nodes, menu |-> menu,
     prev_es |-> hist.es, prev_nodes |-> hist.nodes]

\* init_main_menu
init_main_menu ==
    LET c == Cleaned(state)
        pushed == StatePush(c, "Menu")
    IN /\ ~panicked
       /\ on_enter(c, "MainMenu")
       /\ state' = pushed.state
       /\ IF pushed.ok
          THEN /\ next_menu' = Some(MainMenu)
               /\ hist' = Request("Enter", Some(MainMenu))
               /\ UNCHANGED panicked
          ELSE /\ panicked' = TRUE
               /\ UNCHANGED <<next_menu, hist>>
       /\ UNCHANGED <<menu_es, buffered_state, opening_game, nodes, assets, held,
                      forwarded, rsVars>>

\* init_menu that leaves the previous top displayed
InitMenuPush_NoHide(menu_e, menu) ==
    /\ nodes' = [e \in DOMAIN nodes \cup {menu_e} |->
                    IF e = menu_e THEN [display |-> "Flex", menu |-> menu] ELSE nodes[e]]
    /\ menu_es' = Some(Append(Unwrap(menu_es), menu_e))

\* init_menu that puts the new menu in the place of the previous top
InitMenuPush_Replace(menu_e, menu) ==
    LET es == Unwrap(menu_es)
    IN /\ nodes' = [e \in DOMAIN nodes \cup {menu_e} |->
                       IF e = menu_e THEN [display |-> "Flex", menu |-> menu]
                       ELSE IF e = Last(es) THEN [nodes[e] EXCEPT !.display = "None"]
                       ELSE nodes[e]]
       /\ menu_es' = Some(Append(Front(es), menu_e))

\* init_menu, when the resource MenuEs exists
InitMenuPush(menu_e, menu) ==
    LET es == Unwrap(menu_es)
    IN /\ nodes' = [e \in DOMAIN nodes \cup {menu_e} |->
                       IF e = menu_e THEN Spawned(menu)
                       ELSE IF e = Last(es) THEN [nodes[e] EXCEPT !.display = "None"]
                       ELSE nodes[e]]
       /\ menu_es' = Some(Append(es, menu_e))

\* init_menu, when the resource MenuEs does not exist
InitMenuFirst(menu_e, menu) ==
    /\ nodes' = [e \in DOMAIN nodes \cup {menu_e} |->
                    IF e = menu_e THEN Spawned(menu) ELSE nodes[e]]
    /\ menu_es' = Some(<<menu_e>>)

\* init_menu that leaves the resource NextMenu in place
init_menu_KeepsNextMenu ==
    LET c == Cleaned(state)
    IN /\ ~panicked
       /\ on_enter(c, "Menu")
       /\ FreeEntities # {}
       /\ state' = c
       /\ IsSome(next_menu)
       /\ IF IsSome(menu_es)
          THEN InitMenuPush(NewEntity, MenuBuilder_build(Unwrap(next_menu), assets))
          ELSE InitMenuFirst(NewEntity, MenuBuilder_build(Unwrap(next_menu), assets))
       /\ UNCHANGED <<next_menu, panicked, buffered_state, opening_game, assets, hist, held,
                      forwarded, rsVars>>

\* init_menu
init_menu ==
    LET c == Cleaned(state)
    IN /\ ~panicked
       /\ on_enter(c, "Menu")
       /\ FreeEntities # {}
       /\ state' = c
       /\ IF IsSome(next_menu)
          THEN /\ IF IsSome(menu_es)
                  THEN InitMenuPush(NewEntity, MenuBuilder_build(Unwrap(next_menu), assets))
                  ELSE InitMenuFirst(NewEntity, MenuBuilder_build(Unwrap(next_menu), assets))
               /\ next_menu' = None
               /\ UNCHANGED panicked
          ELSE /\ panicked' = TRUE
               /\ UNCHANGED <<nodes, menu_es, next_menu>>
       /\ UNCHANGED <<buffered_state, opening_game, assets, hist, held, forwarded, rsVars>>

\* Action::Menu in button_action
ClickedMenu(acc, act) ==
    LET r == StatePush(acc.state, "Buffer")
    IN IF r.ok
       THEN [acc EXCEPT !.state = r.state,
                        !.buffered_state = Some("Menu"),
                        !.next_menu = Some(act.menu),
                        !.hist = Request("Menu", Some(act.menu))]
       ELSE [acc EXCEPT !.panicked = TRUE]

\* Action::Back in button_action
ClickedBack(acc) ==
    LET r == StatePop(acc.state)
    IN IF r.ok
       THEN [acc EXCEPT !.state = r.state, !.hist = Request("Back", None)]
       ELSE [acc EXCEPT !.panicked = TRUE]

\* Action::Play in button_action: the path is not used
ClickedPlay(acc) ==
    LET r == StateReplace(acc.state, "Game")
    IN IF r.ok
       THEN [acc EXCEPT !.state = r.state,
                        !.opening_game = TRUE,
                        !.forwarded = Append(@, [signal |-> "OpeningGame"]),
                        !.hist = Request("Play", None)]
       ELSE [acc EXCEPT !.panicked = TRUE]

\* the last arm taken for a pop
ClickedOther_Pops(acc, act) ==
    LET r == StatePop(acc.state)
    IN IF r.ok
       THEN [acc EXCEPT !.state = r.state, !.hist = Request("Back", None)]
       ELSE [acc EXCEPT !.panicked = TRUE]

\* the last arm of button_action, for Rebuild, ImportGame, CreateWorld and Set:
\* nothing is done
ClickedOther(acc, act) == acc

\* what one Interaction::Clicked does in button_action: a step of the loop over
\* the changed interactions, on the state, the queued commands and the history
Clicked(acc, act) ==
    CASE act.type = "Menu" -> ClickedMenu(acc, act)
      [] act.type = "Back" -> ClickedBack(acc)
      [] act.type = "Play" -> ClickedPlay(acc)
      [] OTHER -> ClickedOther(acc, act)

RECURSIVE Dispatch(_, _)
Dispatch(acc, acts) ==
    IF acts = <<>> \/ acc.panicked THEN acc
    ELSE Dispatch(Clicked(acc, Head(acts)), Tail(acts))

\* a set as a sequence, in some order
SeqOfSet(S) == CHOOSE q \in [1..Cardinality(S) -> S] : \A x \in S : \E i \in DOMAIN q : q[i] = x

\* a query without the Changed filter: every button that is Clicked
QueryClicked_Level(down, pressed) ==
    pressed \o SeqOfSet(down \ {pressed[i] : i \in DOMAIN pressed})

\* the query of button_action, Changed<Interaction>: of the buttons that are
\* Clicked, those still down from an earlier run are left out
QueryClicked(down, pressed) == pressed

\* button_action.  The pointers may have been released since the last run
\* (every Clicked interaction is then None), and buttons that are not down
\* may have been pressed: their interaction changed to Clicked.
button_action ==
    LET c == Cleaned(state)
    IN /\ ~panicked
       /\ on_update(c, "Menu")
       /\ \E released \in (IF held = {} THEN {FALSE} ELSE BOOLEAN) :
          LET down == IF released THEN {} ELSE held
          IN \E pressed \in SeqsNoRep(Pressable \ held, MaxPressed - Cardinality(down)) :
            LET clicked == QueryClicked(down, pressed)
                acc == Dispatch([state |-> c, buffered_state |-> buffered_state,
                                 next_menu |-> next_menu, opening_game |-> opening_game,
                                 hist |-> hist, forwarded |-> <<>>, panicked |-> FALSE],
                                [i \in 1..Len(clicked) |-> ActionOf(clicked[i])])
            IN /\ state' = acc.state
               /\ panicked' = acc.panicked
               /\ held' = down \cup {pressed[i] : i \in DOMAIN pressed}
               /\ IF acc.panicked
                  THEN UNCHANGED <<buffered_state, next_menu, opening_game, hist, forwarded>>
                  ELSE /\ buffered_state' = acc.buffered_state
                       /\ next_menu' = acc.next_menu
                       /\ opening_game' = acc.opening_game
                       /\ hist' = acc.hist
                       /\ forwarded' = acc.forwarded
       /\ UNCHANGED <<menu_es, nodes, assets, rsVars>>

\* term_menu without the reveal of the new top
TermNodes_NoReveal(es) == [e \in DOMAIN nodes \ {Last(es)} |-> nodes[e]]

\* term_menu that builds the menu of the new top again
TermNodes_Rebuild(es) ==
    LET template(menu) ==
            CASE menu.title = MainMenu.title -> MainMenu
              [] menu.title = ChooseWorldMenu.title -> ChooseWorldMenu
              [] OTHER -> NewWorldMenu
    IN [e \in DOMAIN nodes \ {Last(es)} |->
           IF Front(es) # <<>> /\ e = Last(Front(es))
           THEN [display |-> "Flex",
                 menu |-> MenuBuilder_build(template(nodes[e].menu), assets)]
           ELSE nodes[e]]

\* term_menu: the nodes once the top is despawned and the new top displayed
TermNodes(es) ==
    [e \in DOMAIN nodes \ {Last(es)} |->
        IF Front(es) # <<>> /\ e = Last(Front(es))
        THEN [nodes[e] EXCEPT !.display = "Flex"]
        ELSE nodes[e]]

\* term_menu that keeps the emptied resource
TermMenuEs_Keep(es) == Some(Front(es))

\* term_menu that removes the resource on every pop
TermMenuEs_Remove(es) == None

\* term_menu: the resource MenuEs once the top is popped
TermMenuEs(es) == IF Front(es) # <<>> THEN Some(Front(es)) ELSE None

\* term_menu
term_menu ==
    LET c == Cleaned(state)
    IN /\ ~panicked
       /\ on_exit(c, "Menu")
       /\ state' = c
       /\ IF IsSome(menu_es)
          THEN /\ nodes' = TermNodes(Unwrap(menu_es))
               /\ menu_es' = TermMenuEs(Unwrap(menu_es))
               /\ held' = {b \in held : b[1] # Last(Unwrap(menu_es))}
               /\ UNCHANGED panicked
          ELSE /\ panicked' = TRUE
               /\ UNCHANGED <<nodes, menu_es, held>>
       /\ UNCHANGED <<next_menu, buffered_state, opening_game, assets, hist, forwarded,
                      rsVars>>

\* the system of the state Buffer: it sets the buffered state
buffer ==
    LET c == Cleaned(state)
    IN /\ ~panicked
       /\ on_enter(c, "Buffer")
       /\ IsSome(buffered_state)
       /\ state' = StateSet(c, Unwrap(buffered_state)).state
       /\ buffered_state' = None
       /\ UNCHANGED <<menu_es, next_menu, opening_game, nodes, assets, panicked, hist,
                      held, forwarded, rsVars>>

\* a pass in which no system of the menu runs
NoMenuSystem(c) ==
    /\ ~on_enter(c, "MainMenu")
    /\ ~on_enter(c, "Menu")
    /\ ~on_update(c, "Menu")
    /\ ~on_exit(c, "Menu")
    /\ ~on_enter(c, "Buffer")

Pass ==
    LET c == Cleaned(state)
    IN /\ ~panicked
       /\ NoMenuSystem(c)
       /\ state' = c
       /\ UNCHANGED <<menu_es, next_menu, buffered_state, opening_game, nodes, assets,
                      panicked, hist, held, forwarded, rsVars>>

\* the application outside the menu moves between the main menu and the game
LeaveState ==
    LET c == Cleaned(state)
    IN /\ ~panicked
       /\ \E s \in {"MainMenu", "Game"} :
            /\ on_update(c, s)
            /\ state' = StateSet(c, IF s = "Game" THEN "MainMenu" ELSE "Game").state
       /\ UNCHANGED <<menu_es, next_menu, buffered_state, opening_game, nodes, assets,
                      panicked, hist, held, forwarded, rsVars>>

\* an asset directory changes on disk
ChangeAssets ==
    /\ ~panicked
    /\ \E d \in AssetDirs : \E l \in Listings(d) \ {assets[d]} :
            assets' = [assets EXCEPT ![d] = l]
    /\ UNCHANGED <<navVars, rsVars>>

NoRequest ==
    [act |-> "None", prev |-> "None", es |-> None, nodes |-> <<>>, menu |-> None,
     prev_es |-> None, prev_nodes |-> <<>>]

Init ==
    /\ state = [stack |-> <<"MainMenu">>, scheduled |-> NoOperation,
                transition |-> Transition("PreStartup", "-", "-")]
    /\ menu_es = None
    /\ next_menu = None
    /\ buffered_state = None
    /\ opening_game = FALSE
    /\ nodes = <<>>
    /\ assets \in AssetStates
    /\ panicked = FALSE
    /\ hist = NoRequest
    /\ held = {}
    /\ forwarded = <<>>
    /\ rs_builder = MainMenu
    /\ rs_menu = None
    /\ rs_reads = <<>>

Next ==
    \/ init_main_menu
    \/ init_menu
    \/ button_action
    \/ term_menu
    \/ buffer
    \/ Pass
    \/ LeaveState
    \/ ChangeAssets

Spec == Init /\ [][Next]_vars

TypeOK ==
    /\ panicked \in BOOLEAN
    /\ opening_game \in BOOLEAN
    /\ Len(state.stack) >= 1

(***************************************************************************)
(* The resolver on its own: build applied to a template and a state of     *)
(* the asset directories, both drawn from bounded sets.                    *)
(***************************************************************************)
BackButton == MenuButton("Back", ActionBack)
ImportButton == MenuButton("Import game", ActionSet(<<ActionImportGame, ActionRebuild>>))

ButtonGroups ==
    {Row(<<>>), Row(<<BackButton>>), Row(<<BackButton, ImportButton>>),
     Row(<<ImportButton, BackButton>>), PerAsset("Play"), PerAsset("CreateWorld")}

Templates ==
    {MenuBuilder("Menu", "Normal", groups) :
        groups \in UNION {[1..k -> ButtonGroups] : k \in 0..MaxGroups}}

RsBuild ==
    /\ rs_menu = None
    /\ rs_menu' = Some(MenuBuilder_build(rs_builder, assets))
    /\ rs_reads' = MenuBuilder_reads(rs_builder)
    /\ UNCHANGED <<navVars, assets, rs_builder>>

ResolveInit ==
    /\ state = [stack |-> <<"MainMenu">>, scheduled |-> NoOperation,
                transition |-> Transition("PreStartup", "-", "-")]
    /\ menu_es = None
    /\ next_menu = None
    /\ buffered_state = None
    /\ opening_game = FALSE
    /\ nodes = <<>>
    /\ panicked = FALSE
    /\ hist = NoRequest
    /\ held = {}
    /\ forwarded = <<>>
    /\ assets \in AssetStates
    /\ rs_builder \in Templates
    /\ rs_menu = None
    /\ rs_reads = <<>>

ResolveNext == RsBuild

ResolveSpec == ResolveInit /\ [][ResolveNext]_vars

(***************************************************************************)
(* Properties.                                                             *)
(***************************************************************************)
Range(f) == {f[i] : i \in DOMAIN f}

\* the navigation stack: the entities of MenuEs, empty when the resource is absent
Handles == IF IsSome(menu_es) THEN Unwrap(menu_es) ELSE <<>>

\* the stack on which the last request was made
HandlesBefore == IF IsSome(hist.es) THEN Unwrap(hist.es) ELSE <<>>

\* the last request has been applied: nothing is scheduled on the state and no
\* menu waits to be built
Done == state.scheduled.op = "None" /\ next_menu = None

\* the Menu states on the stack, less the one whose exit systems have run
MenusInStack(st) == Cardinality({i \in 1..Len(st.stack) : st.stack[i] = "Menu"})
MenuExited(st) ==
    IF st.transition.kind \in {"ExitingToResume", "ExitingFull"} /\ st.transition.from = "Menu"
    THEN 1 ELSE 0
MenuDepth(st) == MenusInStack(st) - MenuExited(st)

\* no pass is in progress: the state has no transition and nothing scheduled
Stable == state.scheduled.op = "None" /\ state.transition.kind = "None"

\* C1: in every reachable state the handle on top of the navigation stack is
\* displayed and every handle below it is hidden, so at most one is visible.
C1_OnlyTopVisible ==
    \A i \in 1..Len(Handles) :
        /\ Handles[i] \in DOMAIN nodes
        /\ nodes[Handles[i]].display = IF i = Len(Handles) THEN "Flex" ELSE "None"

C1_Witness ==
    /\ hist.act = "Back" /\ Done
    /\ Len(HandlesBefore) = 3
    /\ Len(Handles) = 2

\* C2: once a press of a Play button on a stack of n >= 1 handles has been
\* applied, every handle is destroyed, the resource MenuEs is gone, no Menu
\* state is left on the state stack and no menu entity remains.
C2_PlayDestroysAll ==
    (hist.act = "Play" /\ Done) =>
        /\ Len(HandlesBefore) >= 1
        /\ menu_es = None
        /\ DOMAIN nodes = {}
        /\ "Menu" \notin Range(Cleaned(state).stack)
        /\ opening_game

C2_Witness ==
    /\ hist.act = "Play" /\ Done
    /\ Len(HandlesBefore) = 2
    /\ state.stack = <<"Game">>

\* C3: once a press of a Menu(t) button on a stack of n handles has been
\* applied, the stack has n + 1 handles, the first n as before and all still
\* alive with their menus, the previous top hidden, and the top a handle that
\* did not exist before, displayed, showing t as built.
C3_PushAppends ==
    (hist.act = "Menu" /\ Done) =>
        LET old == HandlesBefore
            new == Handles
        IN /\ Len(old) >= 1
           /\ Len(new) = Len(old) + 1
           /\ SubSeq(new, 1, Len(old)) = old
           /\ Last(new) \notin DOMAIN hist.nodes
           /\ DOMAIN nodes = DOMAIN hist.nodes \cup {Last(new)}
           /\ \A e \in DOMAIN hist.nodes : nodes[e].menu = hist.nodes[e].menu
           /\ \A e \in DOMAIN hist.nodes \ {Last(old)} : nodes[e] = hist.nodes[e]
           /\ nodes[Last(old)].display = "None"
           /\ nodes[Last(new)].display = "Flex"
           /\ \E a \in AssetStates :
                nodes[Last(new)].menu = MenuBuilder_build(Unwrap(hist.menu), a)

C3_Witness ==
    /\ hist.act = "Menu" /\ Done
    /\ Len(HandlesBefore) = 2
    /\ Len(Handles) = 3

\* C4: once a press of a Back button on a stack of n >= 2 handles has been
\* applied, the stack is the former one without its top, only the former top is
\* destroyed, the new top is displayed and every other handle is as it was.
C4_BackPops ==
    (hist.act = "Back" /\ Done /\ Len(HandlesBefore) >= 2) =>
        LET old == HandlesBefore
        IN /\ Handles = Front(old)
           /\ DOMAIN nodes = DOMAIN hist.nodes \ {Last(old)}
           /\ nodes[Last(Handles)] = [hist.nodes[Last(Handles)] EXCEPT !.display = "Flex"]
           /\ \A e \in DOMAIN nodes \ {Last(Handles)} : nodes[e] = hist.nodes[e]

C4_Witness ==
    /\ hist.act = "Back" /\ Done
    /\ Len(HandlesBefore) = 2
    /\ Len(Handles) = 1
    /\ nodes[Handles[1]].display = "Flex"

\* C5: once a press of a Back button on a stack of one handle has been applied,
\* the handle is destroyed, the resource MenuEs is gone, no menu entity remains
\* and the state Menu is left: button_action cannot run.
C5_LastBackEmpties ==
    (hist.act = "Back" /\ Done /\ Len(HandlesBefore) = 1) =>
        /\ menu_es = None
        /\ DOMAIN nodes = {}
        /\ "Menu" \notin Range(Cleaned(state).stack)
        /\ ~on_update(Cleaned(state), "Menu")

C5_Witness ==
    /\ hist.act = "Back" /\ Done
    /\ Len(HandlesBefore) = 1
    /\ menu_es = None
    /\ state.stack = <<"MainMenu">>

\* C6: once an entry into the menu (init_main_menu, then init_menu) has been
\* applied, also after an earlier session, the navigation stack holds exactly
\* one handle, newly spawned for the main menu and displayed, and no other
\* menu entity exists.
C6_EnterGivesOne ==
    (hist.act = "Enter" /\ Done) =>
        /\ hist.es = None
        /\ IsSome(menu_es)
        /\ Len(Handles) = 1
        /\ DOMAIN nodes = {Handles[1]}
        /\ nodes[Handles[1]].display = "Flex"
        /\ \E a \in AssetStates : nodes[Handles[1]].menu = MenuBuilder_build(MainMenu, a)
        /\ Last(state.stack) = "Menu"

C6_Witness ==
    /\ hist.act = "Enter" /\ Done
    /\ hist.prev = "Back"
    /\ opening_game
    /\ Len(Handles) = 1

\* C7: in every reachable state a Menu state is on the state stack (and not
\* exited) exactly when the resource MenuEs exists, which then holds one handle
\* per such Menu state and at least one; button_action can run only then, and
\* between passes exactly then; and the resource is removed only by the pop of
\* a stack of one handle.
C7_StateInv ==
    /\ (MenuDepth(state) >= 1) <=> IsSome(menu_es)
    /\ IsSome(menu_es) => Unwrap(menu_es) # <<>>
    /\ Len(Handles) = MenuDepth(state)
    /\ on_update(Cleaned(state), "Menu") => IsSome(menu_es)
    /\ Stable => (on_update(state, "Menu") <=> IsSome(menu_es))

C7_ActiveIffStack ==
    /\ []C7_StateInv
    /\ [][(IsSome(menu_es) /\ menu_es' = None) =>
            (Len(Unwrap(menu_es)) = 1 /\ on_exit(Cleaned(state), "Menu"))]_vars

C7_Witness ==
    /\ hist.act = "Back" /\ Done
    /\ hist.prev = "Back"
    /\ Len(HandlesBefore) = 1
    /\ menu_es = None
    /\ Stable

\* C8: for a template whose groups are all Row, build gives one row per group,
\* in the order of the groups, each the buttons of its group in their order; it
\* reads no directory, and gives the same menu for every state of the asset
\* directories.
OnlyFixed(builder) == \A i \in 1..Len(builder.buttons) : builder.buttons[i].kind = "Row"

C8_FixedMirrorsTemplate ==
    (IsSome(rs_menu) /\ OnlyFixed(rs_builder)) =>
        /\ Unwrap(rs_menu).buttons =
              [i \in 1..Len(rs_builder.buttons) |-> rs_builder.buttons[i].row]
        /\ Unwrap(rs_menu).title = rs_builder.title
        /\ rs_reads = <<>>
        /\ \A a \in AssetStates : MenuBuilder_build(rs_builder, a) = Unwrap(rs_menu)

C8_Witness ==
    /\ IsSome(rs_menu)
    /\ OnlyFixed(rs_builder)
    /\ Len(rs_builder.buttons) = 3
    /\ Len(rs_builder.buttons[1].row) = 2
    /\ rs_builder.buttons[2].row = <<>>
    /\ rs_builder.buttons[1] # rs_builder.buttons[3]
    /\ IsSome(assets[<<"worlds">>])

\* C9: a PerAsset group whose directory cannot be listed gives no row: build
\* gives the menu it gives for the template without such groups, and when the
\* groups left are all Row, exactly their rows in the order of the template.
FailedGroup(g) == g.kind = "PerAsset" /\ ~IsSome(assets[assets_path(g.action)])
ListedGroup(g) == ~FailedGroup(g)

C9_FailedListingGivesNoRow ==
    IsSome(rs_menu) =>
        LET kept == SelectSeq(rs_builder.buttons, ListedGroup)
        IN /\ Unwrap(rs_menu) = MenuBuilder_build([rs_builder EXCEPT !.buttons = kept], assets)
           /\ (\A i \in 1..Len(kept) : kept[i].kind = "Row") =>
                 Unwrap(rs_menu).buttons = [i \in 1..Len(kept) |-> kept[i].row]

C9_Witness ==
    /\ IsSome(rs_menu)
    /\ Len(rs_builder.buttons) = 3
    /\ rs_builder.buttons[1] = Row(<<BackButton, ImportButton>>)
    /\ FailedGroup(rs_builder.buttons[2])
    /\ rs_builder.buttons[3] = Row(<<ImportButton>>) \/ rs_builder.buttons[3] = Row(<<BackButton>>)
    /\ Len(Unwrap(rs_menu).buttons) = 2

\* C10: for a template of one PerAsset group whose directory is listed, build
\* gives one row of one button per entry, in the order of the listing, its text
\* the name of the entry and its action the action of the group on the path of
\* the directory joined with that name.
ActionOn(a, path) ==
    IF a = "Play" THEN ActionPlay(path) ELSE ActionCreateWorld(path)

C10_ActionJoinsBaseAndName ==
    (/\ IsSome(rs_menu)
     /\ Len(rs_builder.buttons) = 1
     /\ rs_builder.buttons[1].kind = "PerAsset"
     /\ IsSome(assets[assets_path(rs_builder.buttons[1].action)])) =>
        LET a == rs_builder.buttons[1].action
            entries == Unwrap(assets[assets_path(a)])
        IN Unwrap(rs_menu).buttons =
              [i \in 1..Len(entries) |->
                  <<MenuButton(file_name(entries[i]),
                               ActionOn(a, PathJoin(assets_path(a), <<file_name(entries[i])>>)))>>]

\* the buttons pressed in a step: their interaction becomes Clicked
Pressed == held' \ held

\* button_action runs in this step
Dispatching == ~panicked /\ on_update(Cleaned(state), "Menu")

\* C11: in a run of button_action in which buttons stay Clicked, none is
\* released and none is newly pressed, no transition is requested: nothing is
\* scheduled on the state and the navigation stack is left as it is.
C11_HeldPressDispatchesOnce ==
    [][(Dispatching /\ held # {} /\ held' = held) =>
          /\ state'.scheduled.op = "None"
          /\ hist' = hist
          /\ next_menu' = next_menu
          /\ menu_es' = menu_es]_vars

C11_Witness ==
    /\ held # {}
    /\ hist.act = "Menu" /\ Done
    /\ Stable
    /\ \A b \in held : b[1] = Last(HandlesBefore) /\ ActionOf(b).type = "Menu"
    /\ Len(Handles) = 2

\* a is a subsequence of b
IsSubSeq(a, b) ==
    \E f \in [1..Len(a) -> 1..Len(b)] :
        /\ \A i, j \in 1..Len(a) : i < j => f[i] < f[j]
        /\ \A i \in 1..Len(a) : b[f[i]] = a[i]

\* the domain signals of an action, those of a Set in the order of its list
RECURSIVE Signals(_)
Signals(act) ==
    CASE act.type = "Set" -> Concat([i \in 1..Len(act.set) |-> Signals(act.set[i])])
      [] act.type \in {"Rebuild", "ImportGame"} -> <<[signal |-> act.type]>>
      [] OTHER -> <<>>

\* C12: a press of a button whose action is Set(actions) hands the domain
\* signals of the contained actions, in the order of the list, to the other
\* systems.
C12_SetAppliesEachAction ==
    [][\A b \in Pressed :
          (ActionOf(b).type = "Set" /\ ~panicked') =>
              IsSubSeq(Signals(ActionOf(b)), forwarded')]_vars

\* Rebuild, ImportGame, or a Set of such actions
RECURSIVE DomainSignal(_)
DomainSignal(act) ==
    CASE act.type \in {"Rebuild", "ImportGame"} -> TRUE
      [] act.type = "Set" -> \A i \in 1..Len(act.set) : DomainSignal(act.set[i])
      [] OTHER -> FALSE

\* C13: a run of button_action in which the only buttons pressed have Rebuild,
\* ImportGame or a Set of these as action changes neither the navigation stack
\* nor the display of any handle nor the state stack, and requests nothing.
C13_DomainSignalsDoNotNavigate ==
    [][(Dispatching /\ Pressed # {} /\ \A b \in Pressed : DomainSignal(ActionOf(b))) =>
          /\ state' = Cleaned(state)
          /\ menu_es' = menu_es
          /\ nodes' = nodes
          /\ next_menu' = next_menu
          /\ buffered_state' = buffered_state
          /\ hist' = hist
          /\ ~panicked']_vars

C13_Witness ==
    /\ \E b \in held : ActionOf(b).type = "Set" /\ nodes[b[1]].display = "Flex"
    /\ hist.act = "Menu" /\ Done
    /\ Stable
    /\ Len(Handles) = 3

\* C14: a press of a button whose action is Play(p) or CreateWorld(p) hands
\* the path p to the other systems.
C14_PathHandedOver ==
    [][\A b \in Pressed :
          (ActionOf(b).type \in {"Play", "CreateWorld"} /\ ~panicked') =>
              \E i \in DOMAIN forwarded' :
                  /\ "path" \in DOMAIN forwarded'[i]
                  /\ forwarded'[i].path = ActionOf(b).path]_vars

\* C15: from the request of a push or an entry until init_menu has run (the
\* resource NextMenu exists), through the state Buffer, the navigation stack and
\* the nodes are those of the moment of the request.
C15_PushNotPartial ==
    (hist.act \in {"Menu", "Enter"} /\ IsSome(next_menu)) =>
        /\ menu_es = hist.es
        /\ nodes = hist.nodes

C15_Witness ==
    /\ hist.act = "Menu"
    /\ IsSome(next_menu)
    /\ Last(state.stack) = "Buffer"
    /\ Len(Handles) = 2
    /\ nodes[Handles[2]].display = "Flex"

\* C16: no run of button_action fails, also when several buttons with
\* navigating actions are pressed in one run.
C16_DispatchCompletes == ~panicked

\* the texts of the buttons made for directory entries, in the order of the rows
IsAssetRow(row) == Len(row) = 1 /\ row[1].action.type \in {"Play", "CreateWorld"}
AssetTexts(menu) ==
    LET rows == SelectSeq(menu.buttons, IsAssetRow)
    IN [i \in 1..Len(rows) |-> rows[i][1].text]

\* the names of the entries of the directories of the PerAsset groups of a template
EntryNames(builder, dirs) ==
    Concat([i \in 1..Len(builder.buttons) |->
        LET g == builder.buttons[i]
            dir == IF g.kind = "PerAsset" /\ g.action = "Play" THEN <<"worlds">> ELSE <<"games">>
        IN IF g.kind = "PerAsset" /\ IsSome(dirs[dir])
           THEN [j \in 1..Len(Unwrap(dirs[dir])) |-> Last(Unwrap(dirs[dir])[j])]
           ELSE <<>>])

\* C17: the menu that init_menu puts on top of the navigation stack has one
\* button per entry that the directory of the template holds when init_menu
\* runs, in the order of the listing.
C17_ResolvedAtTransition ==
    [][(~panicked /\ on_enter(Cleaned(state), "Menu") /\ IsSome(next_menu)
            /\ menu_es' # menu_es) =>
          AssetTexts(nodes'[Last(Unwrap(menu_es'))].menu) =
              EntryNames(Unwrap(next_menu), assets)]_vars

C17_Witness ==
    /\ hist.act = "Menu" /\ hist.prev = "Back" /\ Done
    /\ Len(Handles) = 2
    /\ AssetTexts(nodes[Handles[2]].menu) = <<"beta", "alpha">>
    /\ AssetTexts(nodes[Handles[2]].menu) = EntryNames(ChooseWorldMenu, assets)

\* C18: term_menu on a stack of two handles or more displays the handle below
\* the top, the one hidden by the push, with the menu it had: nothing is built.
C18_PopKeepsScreen ==
    [][(~panicked /\ on_exit(Cleaned(state), "Menu") /\ Len(Handles) >= 2
            /\ menu_es' # menu_es) =>
          LET h == Handles[Len(Handles) - 1]
          IN /\ nodes[h].display = "None"
             /\ Last(Unwrap(menu_es')) = h
             /\ nodes'[h] = [nodes[h] EXCEPT !.display = "Flex"]]_vars

C18_Witness ==
    /\ hist.act = "Back" /\ Done
    /\ Len(Handles) = 2
    /\ nodes[Handles[2]].display = "Flex"
    /\ nodes[Handles[2]].menu.title = ChooseWorldMenu.title
    /\ nodes[Handles[2]].menu # MenuBuilder_build(ChooseWorldMenu, assets)

\* C19: once a Back pressed after a push has been applied, the navigation stack
\* and the nodes are those of the moment the Menu button was pressed, and
\* neither NextMenu nor BufferedState is left.
C19_PushPopRoundTrip ==
    (hist.act = "Back" /\ hist.prev = "Menu" /\ state.scheduled.op = "None") =>
        /\ menu_es = hist.prev_es
        /\ nodes = hist.prev_nodes
        /\ next_menu = None
        /\ buffered_state = None

C19_Witness ==
    /\ hist.act = "Back" /\ hist.prev = "Menu" /\ Done
    /\ Len(Handles) = 2
    /\ nodes = hist.prev_nodes
    /\ Stable

====
